---- MODULE Spec2Model ----
(***************************************************************************)
(* Model of the @WithSpinner method decorator (src/app/spinner/decorator.ts)*)
(* and of the SpinnerHandler contract it relies on                          *)
(* (src/app/spinner/spinnercomponent.ts).                                   *)
(*                                                                          *)
(* The decorated method is an async function.  A call runs synchronously    *)
(* up to the await of the original method (action Call); when the awaited   *)
(* promise settles the rest of the body runs to completion (action Resume). *)
(* JavaScript is run-to-completion, so each of the two is one atomic step;  *)
(* the order of the calls made inside a step is kept in `log`.              *)
(*                                                                          *)
(* The Timer component (src/app/timer/timepipe-pipe.ts) is modelled by the  *)
(* specification SpecTimer over its own variables.  The Counter and        *)
(* Carrito components and the documented examples (CartComponent,          *)
(* errorHandlerInterceptor, provideResource) each have their own           *)
(* specification over their own variables.                                  *)
(***************************************************************************)
EXTENDS Integers, Sequences, FiniteSets, TLC

\* number of invocations of the decorated method in one run
MaxInv == 2

Inv == 1..MaxInv

Methods == {"spinnerOn", "spinnerOff", "handleError"}

Undefined == "undefined"

\* message of the Error thrown at decorator.ts:17-19
ContractViolation == "Component must implement SpinnerHandler interface"

\* values the original method may resolve to, errors it may fail with
Values == {"42", "7"}
Errors == {"boom", "bang"}

\* errors thrown by the handler's own methods
OnError == "spinnerOn threw"
OffError == "spinnerOff threw"
HandleErrorError == "handleError threw"

\* what originalMethod.apply(this, args) does: returns a promise that
\* resolves, rejects or stays pending, or throws before returning one
Outcomes ==
    [kind : {"resolve"}, val : Values]
      \cup [kind : {"reject", "throw"}, val : Errors]
      \cup [kind : {"pending"}, val : {Undefined}]

NoOutcome == [kind |-> "none", val |-> Undefined]

\* argument lists the decorated method is called with (...args)
ArgLists == {<<>>, <<"a", "b">>}

\* the receiver of the decorated call (`this` of descriptor.value)
This == "this"

\* a call originalMethod.apply(receiver, args)
Applied(receiver, a) == [receiver |-> receiver, args |-> a]

\* a promise that handleError may return and that is still pending
PendingPromise == "a pending promise"

\* implementations of the SpinnerHandler interface: each method returns or
\* throws; handleError is abstract in SpinnerComponent and may return a value
HandlerImpls ==
    [onThrows : BOOLEAN, offThrows : BOOLEAN, heThrows : {FALSE},
     heRet : {"handled", Undefined, PendingPromise}]
      \cup [onThrows : BOOLEAN, offThrows : BOOLEAN, heThrows : {TRUE},
            heRet : {Undefined}]

VARIABLES
    handler,   \* behaviour of the methods of the component (fixed)
    loading,   \* SpinnerComponent.loading
    log,       \* calls and promise events, in the order they happen
    pc,        \* per invocation: "idle", "await", "done"
    thisHas,   \* per invocation: the truthy members of `this` among Methods
    op,        \* per invocation: what the original method does
    args,      \* per invocation: the argument list of the call
    callerArgs,\* the argument lists the callers of this run use (fixed)
    promise,   \* per invocation: the promise the decorated method returned
    \* the Timer component (src/app/timer/timepipe-pipe.ts)
    now,            \* the clock, in seconds since the start
    currentDate,    \* Timer.currentDate: the date last set
    sets,           \* number of calls of currentDate.set
    intervalActive, \* intervalId is in the list of active timers
    due,            \* the interval has elapsed and its callback is queued
    destroyed       \* the onDestroy callbacks of the DestroyRef have run

spinnerVars == <<handler, loading, log, pc, thisHas, op, args, callerArgs, promise>>
timerVars == <<now, currentDate, sets, intervalActive, due, destroyed>>

\* the example components, each one the state of its own specification
VARIABLES
    \* the Counter component (src/app/counter/counter.ts)
    counter,        \* Counter.counter
    calls,          \* the calls made on the component, in order
    \* the Carrito component (src/app/pizzas/carrito/carrito.ts)
    pizzas,         \* Carrito.pizzas
    emitted,        \* what observable$ has emitted, in order
    subscribed,     \* the subscription of the constructor is open
    \* the CartComponent example (docs/dia-4/carrto.ts)
    items,          \* CartComponent.items
    totalPrice,     \* CartComponent.totalPrice
    totalItems,     \* CartComponent.totalItems
    lastItems,      \* the last value items$ emitted
    cartSubscribed, \* the subscription of the constructor is open
    lastCall,       \* the call the last method made on the cart service
    \* the errorHandlerInterceptor example (docs/dia-5/interceptores-angular.md)
    upstream,       \* what next(req) has delivered, in order
    downstream,     \* what the interceptor has delivered to its subscriber
    \* the provideResource example (docs/dia-4/http-client.md)
    baseUrl,        \* the value provided for BASE_URL (fixed)
    provided,       \* the calls of provideResource and the tokens they returned
    records,        \* the root injector: the instance created for a token
    factoryCalls,   \* the tokens whose factory has run, in order
    objects,        \* number of objects created with new so far
    lastInject      \* the token and the result of the last inject(token)

counterVars == <<counter, calls>>
carritoVars == <<pizzas, emitted, subscribed>>
cartVars == <<items, totalPrice, totalItems, lastItems, cartSubscribed, lastCall>>
interceptorVars == <<upstream, downstream>>
resourceVars == <<baseUrl, provided, records, factoryCalls, objects, lastInject>>
exampleVars == <<counterVars, carritoVars, cartVars, interceptorVars, resourceVars>>
vars == <<spinnerVars, timerVars, exampleVars>>

NoPromise == [state |-> "none", val |-> Undefined]
Pending == [state |-> "pending", val |-> Undefined]
Fulfilled(v) == [state |-> "fulfilled", val |-> v]
Rejected(e) == [state |-> "rejected", val |-> e]

Ev(i, e, a) == [inv |-> i, ev |-> e, arg |-> a]

\* completion records of a block: falls off the end, returns, or throws
Normal == [kind |-> "normal", val |-> Undefined]
Return(v) == [kind |-> "return", val |-> v]
Throw(e) == [kind |-> "throw", val |-> e]

\* the settlement of an async function's promise from its body's completion
Settle(c) == IF c.kind = "throw" THEN Rejected(c.val) ELSE Fulfilled(c.val)

\* execution state threaded through one synchronous run of the body
Exec(ld, lg) == [loading |-> ld, log |-> lg]

----------------------------------------------------------------------------
\* SpinnerHandler.spinnerOn: sets loading, unless the implementation throws
spinnerOn(h, st, i) ==
    [loading |-> IF h.onThrows THEN st.loading ELSE TRUE,
     log     |-> Append(st.log, Ev(i, "spinnerOn", Undefined)),
     c       |-> IF h.onThrows THEN Throw(OnError) ELSE Normal]

\* invocations other than i that have called spinnerOn and not yet spinnerOff
OthersBusy(lg, i) ==
    {j \in Inv \ {i} :
        Cardinality({k \in DOMAIN lg : lg[k].inv = j /\ lg[k].ev = "spinnerOn"})
          > Cardinality({k \in DOMAIN lg : lg[k].inv = j /\ lg[k].ev = "spinnerOff"})}

\* variant: a reference-counted spinner, which stays on while another
\* invocation is between its spinnerOn and its spinnerOff
spinnerOffCounted(h, st, i) ==
    [loading |-> IF h.offThrows \/ OthersBusy(st.log, i) # {} THEN st.loading ELSE FALSE,
     log     |-> Append(st.log, Ev(i, "spinnerOff", Undefined)),
     c       |-> IF h.offThrows THEN Throw(OffError) ELSE Normal]

\* variant: spinnerOff() { this.loading.set(true); }
spinnerOffSetsTrue(h, st, i) ==
    [loading |-> IF h.offThrows THEN st.loading ELSE TRUE,
     log     |-> Append(st.log, Ev(i, "spinnerOff", Undefined)),
     c       |-> IF h.offThrows THEN Throw(OffError) ELSE Normal]

\* variant: spinnerOff() { this.loading.update(value => !value); }
spinnerOffToggles(h, st, i) ==
    [loading |-> IF h.offThrows THEN st.loading ELSE ~ st.loading,
     log     |-> Append(st.log, Ev(i, "spinnerOff", Undefined)),
     c       |-> IF h.offThrows THEN Throw(OffError) ELSE Normal]

\* SpinnerHandler.spinnerOff: clears loading, unless the implementation throws
spinnerOff(h, st, i) ==
    [loading |-> IF h.offThrows THEN st.loading ELSE FALSE,
     log     |-> Append(st.log, Ev(i, "spinnerOff", Undefined)),
     c       |-> IF h.offThrows THEN Throw(OffError) ELSE Normal]

\* SpinnerHandler.handleError(error): returns a value or throws
handleError(h, st, i, error) ==
    [loading |-> st.loading,
     log     |-> Append(st.log, Ev(i, "handleError", error)),
     c       |-> IF h.heThrows THEN Throw(HandleErrorError) ELSE Return(h.heRet)]

----------------------------------------------------------------------------
\* variant: the three tests joined with && instead of ||
CapabilityOkAny(has) ==
    ~ ("spinnerOn" \notin has /\ "spinnerOff" \notin has /\ "handleError" \notin has)

\* the test of decorator.ts:16 (true when the guard lets the call through)
CapabilityOk(has) ==
    ~ ("spinnerOn" \notin has \/ "spinnerOff" \notin has \/ "handleError" \notin has)

\* variant: spinnerOff as a plain statement after try/catch instead of a
\* finally block, so a throw leaving the catch block skips it
FinallySequential(h, st, i, c) ==
    IF c.kind = "throw"
    THEN [loading |-> st.loading,
          log     |-> Append(st.log, Ev(i, "settle", "rejected")),
          promise |-> Settle(c)]
    ELSE LET off == spinnerOff(h, st, i)
             out == IF off.c.kind = "throw" THEN off.c ELSE c
         IN  [loading |-> off.loading,
              log     |-> Append(off.log, Ev(i, "settle", Settle(out).state)),
              promise |-> Settle(out)]

\* variant: the finally block defers spinnerOff (queueMicrotask), so the
\* promise settles before spinnerOff is called
FinallyDeferred(h, st, i, c) ==
    LET settled == Exec(st.loading, Append(st.log, Ev(i, "settle", Settle(c).state)))
        off     == spinnerOff(h, settled, i)
    IN  [loading |-> off.loading, log |-> off.log, promise |-> Settle(c)]

\* variant: finally { try { handler.spinnerOff(); }
\*                    catch (e) { handler.handleError(e); } }
FinallyReportsOffError(h, st, i, c) ==
    LET off == spinnerOff(h, st, i)
        he  == handleError(h, Exec(off.loading, off.log), i, off.c.val)
        out == IF off.c.kind # "throw" THEN c
               ELSE IF he.c.kind = "throw" THEN he.c ELSE c
        lg  == IF off.c.kind = "throw" THEN he.log ELSE off.log
    IN  [loading |-> off.loading,
         log     |-> Append(lg, Ev(i, "settle", Settle(out).state)),
         promise |-> Settle(out)]

\* finally { handler.spinnerOff(); } entered with completion c of try/catch;
\* a throw in the finally block replaces c.  The body ends here, so the
\* promise of the async function settles with the resulting completion.
\* variant: finally { if (no other invocation is in flight) handler.spinnerOff(); }
FinallyWhenLast(h, st, i, c) ==
    IF OthersBusy(st.log, i) # {}
    THEN [loading |-> st.loading,
          log     |-> Append(st.log, Ev(i, "settle", Settle(c).state)),
          promise |-> Settle(c)]
    ELSE LET off == spinnerOff(h, st, i)
             out == IF off.c.kind = "throw" THEN off.c ELSE c
         IN  [loading |-> off.loading,
              log     |-> Append(off.log, Ev(i, "settle", Settle(out).state)),
              promise |-> Settle(out)]

Finally(h, st, i, c) ==
    LET off == spinnerOff(h, st, i)
        out == IF off.c.kind = "throw" THEN off.c ELSE c
    IN  [loading |-> off.loading,
         log     |-> Append(off.log, Ev(i, "settle", Settle(out).state)),
         promise |-> Settle(out)]

\* variant: catch (error) { handler.handleError(error); handler.spinnerOff(); }
CatchAlsoTurnsOff(h, st, i, error) ==
    LET he  == handleError(h, st, i, error)
        off == spinnerOff(h, Exec(he.loading, he.log), i)
        c   == IF he.c.kind = "throw" THEN he.c ELSE Normal
    IN  IF he.c.kind = "throw"
        THEN Finally(h, Exec(he.loading, he.log), i, c)
        ELSE Finally(h, Exec(off.loading, off.log), i,
                     IF off.c.kind = "throw" THEN off.c ELSE c)

\* variant: catch (error) { return handler.handleError(error); }
CatchReturnsHandled(h, st, i, error) ==
    LET he == handleError(h, st, i, error)
    IN  Finally(h, Exec(he.loading, he.log), i, he.c)

\* variant: catch (error) { handler.handleError(); } (the error is not passed)
CatchNoArg(h, st, i, error) ==
    LET he == handleError(h, st, i, Undefined)
        c  == IF he.c.kind = "throw" THEN he.c ELSE Normal
    IN  Finally(h, Exec(he.loading, he.log), i, c)

\* variant: catch (error) { handler.handleError(error); throw error; }
CatchRethrows(h, st, i, error) ==
    LET he == handleError(h, st, i, error)
        c  == IF he.c.kind = "throw" THEN he.c ELSE Throw(error)
    IN  Finally(h, Exec(he.loading, he.log), i, c)

\* variant: catch (error) { await handler.handleError(error); } : a second
\* suspension, between handleError and spinnerOff
CatchAwaitsHandleError(h, st, i, error) ==
    LET he == handleError(h, st, i, error)
        c  == IF he.c.kind = "throw" THEN he.c ELSE Normal
        lg == IF he.c.kind = "throw" THEN he.log
              ELSE Append(he.log, Ev(i, "await", Undefined))
    IN  Finally(h, Exec(he.loading, lg), i, c)

\* variant: catch (error) { try { handler.handleError(error); } catch {} }
CatchSwallows(h, st, i, error) ==
    LET he == handleError(h, st, i, error)
    IN  Finally(h, Exec(he.loading, he.log), i, Normal)

\* catch (error) { handler.handleError(error); } : the value handleError
\* returns is dropped, a throw of handleError leaves the catch block
Catch(h, st, i, error) ==
    LET he == handleError(h, st, i, error)
        c  == IF he.c.kind = "throw" THEN he.c ELSE Normal
    IN  Finally(h, Exec(he.loading, he.log), i, c)

\* variant: the original method is called before the try block, so a
\* synchronous throw escapes the guard
TryBlockApplyOutside(h, st, i, a, o) ==
    LET applied == Exec(st.loading, Append(st.log, Ev(i, "apply", Applied(This, a))))
    IN  IF o.kind = "throw"
        THEN [pc |-> "done", loading |-> applied.loading,
              log |-> Append(applied.log, Ev(i, "settle", "rejected")),
              promise |-> Rejected(o.val)]
        ELSE LET on == spinnerOn(h, applied, i)
             IN  IF on.c.kind = "throw"
                 THEN [pc |-> "done"] @@ Catch(h, Exec(on.loading, on.log), i, on.c.val)
                 ELSE [pc |-> "await", loading |-> on.loading,
                       log |-> Append(on.log, Ev(i, "await", Undefined)),
                       promise |-> Pending]

\* variant: try { const p = originalMethod.apply(this, args);
\*                handler.spinnerOn(); return await p;
TryBlockOnAfterApply(h, st, i, a, o) ==
    LET applied == Exec(st.loading, Append(st.log, Ev(i, "apply", Applied(This, a))))
    IN  IF o.kind = "throw"
        THEN [pc |-> "done"] @@ Catch(h, applied, i, o.val)
        ELSE LET on == spinnerOn(h, applied, i)
             IN  IF on.c.kind = "throw"
                 THEN [pc |-> "done"] @@ Catch(h, Exec(on.loading, on.log), i, on.c.val)
                 ELSE [pc |-> "await", loading |-> on.loading,
                       log |-> Append(on.log, Ev(i, "await", Undefined)),
                       promise |-> Pending]

\* variant: try { handler.spinnerOn(); return await originalMethod.apply(this);
\* (the argument list is not passed on)
TryBlockDropsArgs(h, st, i, a, o) ==
    LET on == spinnerOn(h, st, i)
    IN  IF on.c.kind = "throw"
        THEN [pc |-> "done"] @@ Catch(h, Exec(on.loading, on.log), i, on.c.val)
        ELSE LET applied == Exec(on.loading,
                                 Append(on.log, Ev(i, "apply", Applied(This, <<>>))))
             IN  IF o.kind = "throw"
                 THEN [pc |-> "done"] @@ Catch(h, applied, i, o.val)
                 ELSE [pc |-> "await", loading |-> applied.loading,
                       log |-> Append(applied.log, Ev(i, "await", Undefined)),
                       promise |-> Pending]

\* variant: the await races the operation against a timer, so an operation
\* that never settles is given up with a timeout error
TryBlockTimesOut(h, st, i, a, o) ==
    LET on == spinnerOn(h, st, i)
    IN  IF on.c.kind = "throw"
        THEN [pc |-> "done"] @@ Catch(h, Exec(on.loading, on.log), i, on.c.val)
        ELSE LET applied == Exec(on.loading,
                                 Append(on.log, Ev(i, "apply", Applied(This, a))))
             IN  IF o.kind = "throw"
                 THEN [pc |-> "done"] @@ Catch(h, applied, i, o.val)
                 ELSE IF o.kind = "pending"
                 THEN [pc |-> "done"] @@ Catch(h, applied, i, "timeout")
                 ELSE [pc |-> "await", loading |-> applied.loading,
                       log |-> Append(applied.log, Ev(i, "await", Undefined)),
                       promise |-> Pending]

\* variant: try { if (!this.loading()) handler.spinnerOn(); ...
TryBlockSkipsOnWhenBusy(h, st, i, a, o) ==
    LET on == IF st.loading
              THEN [loading |-> st.loading, log |-> st.log, c |-> Normal]
              ELSE spinnerOn(h, st, i)
    IN  IF on.c.kind = "throw"
        THEN [pc |-> "done"] @@ Catch(h, Exec(on.loading, on.log), i, on.c.val)
        ELSE LET applied == Exec(on.loading,
                                 Append(on.log, Ev(i, "apply", Applied(This, a))))
             IN  IF o.kind = "throw"
                 THEN [pc |-> "done"] @@ Catch(h, applied, i, o.val)
                 ELSE [pc |-> "await", loading |-> applied.loading,
                       log |-> Append(applied.log, Ev(i, "await", Undefined)),
                       promise |-> Pending]

\* try { handler.spinnerOn(); return await originalMethod.apply(this, args);
\* up to the await: the result has pc "await" when the body is suspended
\* (the suspension is the log event "await")
\* variant: handler.spinnerOn(); try { return await ...; } catch ... finally ...
TryBlockOnOutside(h, st, i, a, o) ==
    LET on == spinnerOn(h, st, i)
    IN  IF on.c.kind = "throw"
        THEN [pc |-> "done", loading |-> on.loading,
              log |-> Append(on.log, Ev(i, "settle", "rejected")),
              promise |-> Rejected(on.c.val)]
        ELSE LET applied == Exec(on.loading, Append(on.log, Ev(i, "apply", Applied(This, a))))
             IN  IF o.kind = "throw"
                 THEN [pc |-> "done"] @@ Catch(h, applied, i, o.val)
                 ELSE [pc |-> "await", loading |-> applied.loading,
                       log |-> Append(applied.log, Ev(i, "await", Undefined)),
                       promise |-> Pending]

TryBlock(h, st, i, a, o) ==
    LET on == spinnerOn(h, st, i)
    IN  IF on.c.kind = "throw"
        THEN [pc |-> "done"] @@ Catch(h, Exec(on.loading, on.log), i, on.c.val)
        ELSE LET applied == Exec(on.loading, Append(on.log, Ev(i, "apply", Applied(This, a))))
             IN  IF o.kind = "throw"
                 THEN [pc |-> "done"] @@ Catch(h, applied, i, o.val)
                 ELSE [pc |-> "await", loading |-> applied.loading,
                       log |-> Append(applied.log, Ev(i, "await", Undefined)),
                       promise |-> Pending]

\* variant: the result of the capability test is computed on the first call
\* and kept in the closure of the decorator for the later calls
BodyCachesCheck(h, st, i, has, a, o) ==
    LET cached == IF st.log = <<>> THEN CapabilityOk(has)
                  ELSE st.log[1].ev # "settle"
    IN  IF ~ cached
        THEN [pc |-> "done", loading |-> st.loading,
              log |-> Append(st.log, Ev(i, "settle", "rejected")),
              promise |-> Rejected(ContractViolation)]
        ELSE TryBlock(h, st, i, a, o)

\* variant: descriptor.value = function (...args) { ... } without async: the
\* throw of the capability test leaves the call as an exception
BodyThrowsSync(h, st, i, has, a, o) ==
    IF ~ CapabilityOk(has)
    THEN [pc |-> "done", loading |-> st.loading,
          log |-> Append(st.log, Ev(i, "throw", ContractViolation)),
          promise |-> [state |-> "thrown", val |-> ContractViolation]]
    ELSE TryBlock(h, st, i, a, o)

\* the body of the decorated method up to its first suspension
Body(h, st, i, has, a, o) ==
    IF ~ CapabilityOk(has)
    THEN [pc |-> "done", loading |-> st.loading,
          log |-> Append(st.log, Ev(i, "settle", "rejected")),
          promise |-> Rejected(ContractViolation)]
    ELSE TryBlock(h, st, i, a, o)

\* variant: try { ...; await originalMethod.apply(this, args); } without return
ContinueDropsValue(h, st, i, o) ==
    IF o.kind = "resolve"
    THEN Finally(h, st, i, Normal)
    ELSE Catch(h, st, i, o.val)

\* the rest of the body once the awaited promise has settled
Continue(h, st, i, o) ==
    IF o.kind = "resolve"
    THEN Finally(h, st, i, Return(o.val))
    ELSE Catch(h, st, i, o.val)

----------------------------------------------------------------------------
\* the component after construction, before any call of the decorated method
InitCalls ==
    /\ handler \in HandlerImpls
    /\ loading = FALSE
    /\ log = <<>>
    /\ pc = [i \in Inv |-> "idle"]
    /\ thisHas = [i \in Inv |-> {}]
    /\ op = [i \in Inv |-> NoOutcome]
    /\ args = [i \in Inv |-> <<>>]
    /\ promise = [i \in Inv |-> NoPromise]

\* no Timer component has been created
NoTimer ==
    /\ now = 0
    /\ currentDate = 0
    /\ sets = 0
    /\ intervalActive = FALSE
    /\ due = FALSE
    /\ destroyed = FALSE

\* the Counter component after construction: counter = signal<number>(0)
InitCounter ==
    /\ counter = 0
    /\ calls = <<>>

\* the Carrito component after its constructor: pizzas = signal<Pizza[]>([])
\* and the subscription to observable$ is open
InitCarrito ==
    /\ pizzas = <<>>
    /\ emitted = <<>>
    /\ subscribed = TRUE

\* a cart item that stands for no item
NoItem == [id |-> 0, price |-> 0, quantity |-> 0]
\* no call was made on the cart service
NoCall == [by |-> "none", item |-> NoItem, method |-> "none", args |-> <<>>]

\* the CartComponent after its constructor, before items$ has emitted
InitCart ==
    /\ items = <<>>
    /\ totalPrice = 0
    /\ totalItems = 0
    /\ lastItems = <<>>
    /\ cartSubscribed = TRUE
    /\ lastCall = NoCall

\* the interceptor was called and its result subscribed; nothing was
\* delivered yet
InitInterceptor ==
    /\ upstream = <<>>
    /\ downstream = <<>>

\* the values app.config.ts can provide for BASE_URL
BaseUrls == {"https://api.example.com", "http://localhost:3000"}
\* no class instance
NoInstance == [id |-> 0, class |-> "none", endpoint |-> <<>>]

\* the application before any token is created
InitResourceWith(base) ==
    /\ baseUrl = base
    /\ provided = <<>>
    /\ records = {}
    /\ factoryCalls = <<>>
    /\ objects = 0
    /\ lastInject = [token |-> 0, instance |-> NoInstance]

\* the example components after construction
InitExamples ==
    /\ InitCounter
    /\ InitCarrito
    /\ InitCart
    /\ InitInterceptor
    /\ InitResourceWith("https://api.example.com")

\* callers that pass no arguments (the arguments only pass through the guard)
Init ==
    /\ InitCalls
    /\ callerArgs = {<<>>}
    /\ NoTimer
    /\ InitExamples

\* callers that pass any of the argument lists
InitArgs ==
    /\ InitCalls
    /\ callerArgs = ArgLists
    /\ NoTimer
    /\ InitExamples

\* invocations are numbered in the order they are made
NextInv(i) == \A j \in Inv : (j < i) <=> (pc[j] # "idle")

\* a call of the decorated method on `this` with members `has`
Call(i) ==
    /\ pc[i] = "idle"
    /\ NextInv(i)
    /\ \E has \in SUBSET Methods, a \in callerArgs, o \in Outcomes :
         LET r == Body(handler, Exec(loading, log), i, has, a, o)
         IN  /\ thisHas' = [thisHas EXCEPT ![i] = has]
             /\ op' = [op EXCEPT ![i] = IF CapabilityOk(has) THEN o ELSE NoOutcome]
             /\ args' = [args EXCEPT ![i] = IF CapabilityOk(has) THEN a ELSE <<>>]
             /\ pc' = [pc EXCEPT ![i] = r.pc]
             /\ loading' = r.loading
             /\ log' = Append(r.log, Ev(i, "return", Undefined))
             /\ promise' = [promise EXCEPT ![i] = r.promise]
    /\ UNCHANGED <<handler, callerArgs, timerVars, exampleVars>>

\* the awaited promise of invocation i has settled: the body resumes
Resume(i) ==
    /\ pc[i] = "await"
    /\ op[i].kind \in {"resolve", "reject"}
    /\ LET r == Continue(handler, Exec(loading, log), i, op[i])
       IN  /\ pc' = [pc EXCEPT ![i] = "done"]
           /\ loading' = r.loading
           /\ log' = r.log
           /\ promise' = [promise EXCEPT ![i] = r.promise]
    /\ UNCHANGED <<handler, thisHas, op, args, callerArgs, timerVars, exampleVars>>

Next == \E i \in Inv : Call(i) \/ Resume(i)

Spec == Init /\ [][Next]_vars

\* the same calls, made with argument lists
SpecArgs == InitArgs /\ [][Next]_vars

\* the event loop runs the continuation of an await once the awaited promise
\* has settled
FairSpec == Spec /\ \A i \in Inv : WF_vars(Resume(i))

----------------------------------------------------------------------------
\* The Timer component (src/app/timer/timepipe-pipe.ts)

\* seconds the clock runs in a checked behaviour
MaxTime == 8

\* the component after its constructor: currentDate = signal(new Date()),
\* the interval is set and the onDestroy callback registered
InitTimer ==
    /\ now = 0
    /\ currentDate = 0
    /\ sets = 0
    /\ intervalActive = TRUE
    /\ due = FALSE
    /\ destroyed = FALSE
    /\ handler = [onThrows |-> FALSE, offThrows |-> FALSE, heThrows |-> FALSE,
                  heRet |-> Undefined]
    /\ loading = FALSE
    /\ log = <<>>
    /\ pc = [i \in Inv |-> "idle"]
    /\ thisHas = [i \in Inv |-> {}]
    /\ op = [i \in Inv |-> NoOutcome]
    /\ args = [i \in Inv |-> <<>>]
    /\ callerArgs = {<<>>}
    /\ promise = [i \in Inv |-> NoPromise]
    /\ InitExamples

\* a second passes; an active interval of 1000 ms elapses and queues its
\* callback
TimePasses ==
    /\ now < MaxTime
    /\ now' = now + 1
    /\ due' = intervalActive
    /\ UNCHANGED <<currentDate, sets, intervalActive, destroyed, spinnerVars, exampleVars>>

\* the callback of setInterval: this.currentDate.set(new Date())
IntervalCallback ==
    /\ intervalActive /\ due
    /\ currentDate' = now
    /\ sets' = sets + 1
    /\ due' = FALSE
    /\ UNCHANGED <<now, intervalActive, destroyed, spinnerVars, exampleVars>>

\* variant: the onDestroy callback does not clear the interval
DestroyKeepsInterval ==
    /\ ~ destroyed
    /\ destroyed' = TRUE
    /\ UNCHANGED <<now, currentDate, sets, intervalActive, due, spinnerVars, exampleVars>>

\* the component is destroyed: the onDestroy callback runs
\* clearInterval(intervalId), which also drops a queued callback
Destroy ==
    /\ ~ destroyed
    /\ destroyed' = TRUE
    /\ intervalActive' = FALSE
    /\ due' = FALSE
    /\ UNCHANGED <<now, currentDate, sets, spinnerVars, exampleVars>>

NextTimer == TimePasses \/ IntervalCallback \/ Destroy

SpecTimer == InitTimer /\ [][NextTimer]_vars

----------------------------------------------------------------------------
\* No decorated method is called and no Timer exists
Quiet ==
    /\ handler = [onThrows |-> FALSE, offThrows |-> FALSE, heThrows |-> FALSE,
                  heRet |-> Undefined]
    /\ loading = FALSE
    /\ log = <<>>
    /\ pc = [i \in Inv |-> "idle"]
    /\ thisHas = [i \in Inv |-> {}]
    /\ op = [i \in Inv |-> NoOutcome]
    /\ args = [i \in Inv |-> <<>>]
    /\ callerArgs = {<<>>}
    /\ promise = [i \in Inv |-> NoPromise]
    /\ NoTimer

\* the example components after construction, nothing else running
InitQuiet == Quiet /\ InitExamples

----------------------------------------------------------------------------
\* The Counter component (src/app/counter/counter.ts)

\* number of calls made on the Counter in one run
MaxCalls == 7

\* the arrow functions given to counter.update: value => ++value and
\* value => --value return the value after the change
PreIncrement(value) == value + 1
PreDecrement(value) == value - 1

\* the rest of the state, which the Counter does not touch
CounterFrame ==
    UNCHANGED <<spinnerVars, timerVars, carritoVars, cartVars, interceptorVars, resourceVars>>

\* increment() { this.counter.update(value => ++value) }
increment ==
    /\ Len(calls) < MaxCalls
    /\ counter' = PreIncrement(counter)
    /\ calls' = Append(calls, "increment")
    /\ CounterFrame

\* variant: decrement() { this.counter.update(value => --value) }
decrementUnguarded ==
    /\ Len(calls) < MaxCalls
    /\ counter' = PreDecrement(counter)
    /\ calls' = Append(calls, "decrement")
    /\ CounterFrame

\* decrement() { if (this.counter() > 0) this.counter.update(value => --value) }
decrement ==
    /\ Len(calls) < MaxCalls
    /\ counter' = IF counter > 0 THEN PreDecrement(counter) ELSE counter
    /\ calls' = Append(calls, "decrement")
    /\ CounterFrame

NextCounter == increment \/ decrement

SpecCounter == InitQuiet /\ [][NextCounter]_vars

----------------------------------------------------------------------------
\* The Carrito component (src/app/pizzas/carrito/carrito.ts)

\* number of emissions of observable$ in one run
MaxEmit == 4

\* the values null and undefined as emissions
Null == [is |-> "null"]
Undef == [is |-> "undefined"]
\* the pizzas the service can emit
Pizzas == {[name |-> "margarita", price |-> 5], [name |-> "carbonara", price |-> 7]}
\* the values observable$ can emit
Emissions == Pizzas \cup {Null, Undef}

\* if (pizza): an object is truthy, null and undefined are not
Truthy(v) == v \notin {Null, Undef}

\* .map(p => p.price)
MapPrice(ps) == [k \in 1..Len(ps) |-> ps[k].price]

\* .reduce((acumulado, price) => acumulado + price, acumulado)
RECURSIVE Reduce(_, _)
Reduce(prices, acumulado) ==
    IF prices = <<>> THEN acumulado
    ELSE Reduce(Tail(prices), acumulado + Head(prices))

\* total = computed(() => this.pizzas().map(...).reduce(..., 0))
total == Reduce(MapPrice(pizzas), 0)

\* variant: the subscriber appends whatever is emitted
OnPizzaUnguarded(ps, pizza) == Append(ps, pizza)

\* the subscriber: if (pizza) this.pizzas.update(pizzas => [...pizzas, pizza])
OnPizza(ps, pizza) == IF Truthy(pizza) THEN Append(ps, pizza) ELSE ps

\* the rest of the state, which the Carrito does not touch
CarritoFrame ==
    UNCHANGED <<spinnerVars, timerVars, counterVars, cartVars, interceptorVars, resourceVars>>

\* observable$ emits a value; an open subscription runs the subscriber
Emit ==
    /\ Len(emitted) < MaxEmit
    /\ \E pizza \in Emissions :
         /\ emitted' = Append(emitted, pizza)
         /\ pizzas' = IF subscribed THEN OnPizza(pizzas, pizza) ELSE pizzas
    /\ UNCHANGED subscribed
    /\ CarritoFrame

\* the component is destroyed: takeUntilDestroyed() closes the subscription
DestroyCarrito ==
    /\ subscribed
    /\ subscribed' = FALSE
    /\ UNCHANGED <<pizzas, emitted>>
    /\ CarritoFrame

NextCarrito == Emit \/ DestroyCarrito

SpecCarrito == InitQuiet /\ [][NextCarrito]_vars

----------------------------------------------------------------------------
\* The CartComponent example (docs/dia-4/carrto.ts)

\* largest quantity of an item
MaxQty == 2

\* the cart items: an id, the price of that product and a quantity
CartItems ==
    {[id |-> 1, price |-> 2, quantity |-> q] : q \in 0..MaxQty}
      \cup {[id |-> 2, price |-> 5, quantity |-> q] : q \in 0..MaxQty}

\* the lists items$ can emit: at most one item per id
ItemLists ==
    {<<>>} \cup {<<a>> : a \in CartItems}
           \cup {l \in {<<a, b>> : a, b \in CartItems} : l[1].id # l[2].id}

\* this.items.reduce((total, item) => total + (item.price * item.quantity), total)
RECURSIVE ReducePrice(_, _)
ReducePrice(its, acc) ==
    IF its = <<>> THEN acc
    ELSE ReducePrice(Tail(its), acc + (Head(its).price * Head(its).quantity))

\* this.items.reduce((total, item) => total + item.quantity, total)
RECURSIVE ReduceQuantity(_, _)
ReduceQuantity(its, acc) ==
    IF its = <<>> THEN acc
    ELSE ReduceQuantity(Tail(its), acc + Head(its).quantity)

\* calculateTotals(): the values of totalPrice and totalItems for this.items
calculateTotals(its) ==
    [totalPrice |-> ReducePrice(its, 0), totalItems |-> ReduceQuantity(its, 0)]

\* calls on the cart service
UpdateQuantityCall(by, item, id, quantity) ==
    [by |-> by, item |-> item, method |-> "updateQuantity", args |-> <<id, quantity>>]
RemoveItemCall(by, item, id) ==
    [by |-> by, item |-> item, method |-> "removeItem", args |-> <<id>>]
ClearCartCall ==
    [by |-> "clearCart", item |-> NoItem, method |-> "clearCart", args |-> <<>>]

\* the rest of the state, which the CartComponent does not touch
CartFrame ==
    UNCHANGED <<spinnerVars, timerVars, counterVars, carritoVars, interceptorVars, resourceVars>>

\* items$ emits a list; an open subscription runs the subscriber:
\* this.items = items; this.calculateTotals()
ItemsEmit ==
    /\ \E its \in ItemLists :
         /\ lastItems' = its
         /\ items' = IF cartSubscribed THEN its ELSE items
         /\ totalPrice' = IF cartSubscribed THEN calculateTotals(its).totalPrice
                          ELSE totalPrice
         /\ totalItems' = IF cartSubscribed THEN calculateTotals(its).totalItems
                          ELSE totalItems
    /\ UNCHANGED <<cartSubscribed, lastCall>>
    /\ CartFrame

\* the component is destroyed: takeUntilDestroyed() closes the subscription
DestroyCart ==
    /\ cartSubscribed
    /\ cartSubscribed' = FALSE
    /\ UNCHANGED <<items, totalPrice, totalItems, lastItems, lastCall>>
    /\ CartFrame

\* increaseQuantity(item)
increaseQuantity ==
    /\ \E item \in CartItems :
         lastCall' = UpdateQuantityCall("increaseQuantity", item, item.id, item.quantity + 1)
    /\ UNCHANGED <<items, totalPrice, totalItems, lastItems, cartSubscribed>>
    /\ CartFrame

\* variant: if (item.quantity > 0) updateQuantity(...) else removeItem(...)
decreaseQuantityToZero ==
    /\ \E item \in CartItems :
         lastCall' = IF item.quantity > 0
                     THEN UpdateQuantityCall("decreaseQuantity", item, item.id, item.quantity - 1)
                     ELSE RemoveItemCall("decreaseQuantity", item, item.id)
    /\ UNCHANGED <<items, totalPrice, totalItems, lastItems, cartSubscribed>>
    /\ CartFrame

\* decreaseQuantity(item)
decreaseQuantity ==
    /\ \E item \in CartItems :
         lastCall' = IF item.quantity > 1
                     THEN UpdateQuantityCall("decreaseQuantity", item, item.id, item.quantity - 1)
                     ELSE RemoveItemCall("decreaseQuantity", item, item.id)
    /\ UNCHANGED <<items, totalPrice, totalItems, lastItems, cartSubscribed>>
    /\ CartFrame

\* removeItem(itemId), called from the template
removeItem ==
    /\ \E item \in CartItems :
         lastCall' = RemoveItemCall("removeItem", item, item.id)
    /\ UNCHANGED <<items, totalPrice, totalItems, lastItems, cartSubscribed>>
    /\ CartFrame

\* clearCart()
clearCart ==
    /\ lastCall' = ClearCartCall
    /\ UNCHANGED <<items, totalPrice, totalItems, lastItems, cartSubscribed>>
    /\ CartFrame

NextCart ==
    \/ ItemsEmit
    \/ DestroyCart
    \/ increaseQuantity
    \/ decreaseQuantity
    \/ removeItem
    \/ clearCart

SpecCart == InitQuiet /\ [][NextCart]_vars

----------------------------------------------------------------------------
\* The errorHandlerInterceptor example (docs/dia-5/interceptores-angular.md)

\* number of events next(req) delivers before it ends
MaxEvents == 2

\* status codes around the limits the interceptor tests
Statuses == {0, 200, 399, 400, 404, 499, 500, 503, 599, 600}
StatusTexts == {"Not Found", "Unavailable"}
ReqUrl == "/api/data"
NoUrl == "null"

ClientMessage == "Error del cliente: Verifica los datos enviados"
ServerMessage == "Error del servidor: Intenta más tarde"

\* the events of next(req): a response, or an event of another type
ResponseEvent(status, statusText) ==
    [type |-> "Response", status |-> status, statusText |-> statusText, url |-> NoUrl]
HttpEvents ==
    {[type |-> "Sent"]}
      \cup {ResponseEvent(st, "Not Found") : st \in Statuses}

\* new HttpErrorResponse({status, statusText, url})
HttpErrorResponse(status, statusText, url) ==
    [name |-> "HttpErrorResponse", status |-> status, statusText |-> statusText,
     url |-> url,
     message |-> [text |-> "Http failure response", status |-> status,
                  statusText |-> statusText]]

\* the errors next(req) can fail with: an HTTP error, or one with no status
SourceErrors ==
    {HttpErrorResponse(st, tx, ReqUrl) : st \in Statuses, tx \in StatusTexts}
      \cup {[name |-> "TypeError",
             message |-> [text |-> "not http", status |-> 0, statusText |-> ""]]}

\* x.status >= lo && x.status < hi; a missing status is undefined and
\* compares false
StatusIn(x, lo, hi) ==
    /\ "status" \in DOMAIN x
    /\ x.status >= lo
    /\ x.status < hi

\* the callback of tap: throws for a response with an error status
TapCallback(event) ==
    IF event.type = "Response" /\ StatusIn(event, 400, 600)
    THEN Throw(HttpErrorResponse(event.status, event.statusText,
                   IF event.url # NoUrl THEN event.url ELSE ReqUrl))
    ELSE Normal

\* new Error(`${customMessage} (${error.status}: ${error.statusText})`)
NewError(customMessage, error) ==
    [name |-> "Error",
     message |-> [text |-> customMessage, status |-> error.status,
                  statusText |-> error.statusText]]

\* variant: if (error.status > 400 && error.status < 600)
CatchErrorSelectorAbove(error) ==
    IF StatusIn(error, 401, 600)
    THEN LET customMessage ==
                 IF StatusIn(error, 400, 500) THEN ClientMessage
                 ELSE IF StatusIn(error, 500, 600) THEN ServerMessage
                 ELSE ""
         IN  NewError(customMessage, error)
    ELSE error

\* the selector of catchError: the error that throwError re-throws
CatchErrorSelector(error) ==
    IF StatusIn(error, 400, 600)
    THEN LET customMessage ==
                 IF StatusIn(error, 400, 500) THEN ClientMessage
                 ELSE IF StatusIn(error, 500, 600) THEN ServerMessage
                 ELSE ""
         IN  NewError(customMessage, error)
    ELSE error

\* notifications of an observable
NextN(v) == [n |-> "next", v |-> v]
ErrorN(e) == [n |-> "error", v |-> e]
CompleteN == [n |-> "complete", v |-> [type |-> "none"]]

\* an observable has ended once it has delivered an error or completed
Ended(stream) == stream # <<>> /\ stream[Len(stream)].n # "next"

\* the rest of the state, which the interceptor does not touch
InterceptorFrame ==
    UNCHANGED <<spinnerVars, timerVars, counterVars, carritoVars, cartVars, resourceVars>>

\* next(req) delivers an event: tap runs its callback, and what it throws
\* goes to catchError
SourceNext ==
    /\ ~ Ended(downstream)
    /\ Len(upstream) < MaxEvents
    /\ \E event \in HttpEvents :
         LET t == TapCallback(event)
         IN  /\ upstream' = Append(upstream, NextN(event))
             /\ downstream' =
                  Append(downstream,
                         IF t.kind = "throw" THEN ErrorN(CatchErrorSelector(t.val))
                         ELSE NextN(event))
    /\ InterceptorFrame

\* next(req) fails: catchError runs its selector
SourceError ==
    /\ ~ Ended(downstream)
    /\ \E error \in SourceErrors :
         /\ upstream' = Append(upstream, ErrorN(error))
         /\ downstream' = Append(downstream, ErrorN(CatchErrorSelector(error)))
    /\ InterceptorFrame

\* next(req) completes
SourceComplete ==
    /\ ~ Ended(downstream)
    /\ upstream' = Append(upstream, CompleteN)
    /\ downstream' = Append(downstream, CompleteN)
    /\ InterceptorFrame

NextInterceptor == SourceNext \/ SourceError \/ SourceComplete

SpecInterceptor == InitQuiet /\ [][NextInterceptor]_vars

----------------------------------------------------------------------------
\* The provideResource example (docs/dia-4/http-client.md)

\* number of calls of provideResource in one run
MaxTokens == 2

Paths == {"/api/users", "/api/config"}
\* keyof OperationMap<T>
Operations == {"get", "create", "update", "delete", "crud"}

\* const op = (operation || 'crud'): an omitted operation is undefined
OrCrud(operation) == IF operation = Undefined THEN "crud" ELSE operation

\* the template literal `${op}:${path}`, kept as its parts
TokenName(opName, path) == <<opName, ":", path>>

\* the template literal `${baseUrl}${path}`, kept as its parts
Endpoint(base, path) == <<base, path>>

\* new XOperation<T>(http, endpoint), the object number id
NewOperation(id, class, endpoint) ==
    [id |-> id, class |-> class, endpoint |-> endpoint]

\* variant: the switch of the factory without case 'delete'
FactoryMissingDelete(token, base, id) ==
    LET endpoint == Endpoint(base, token.path)
    IN  CASE token.op = "get" -> NewOperation(id, "GetOperation", endpoint)
          [] token.op = "create" -> NewOperation(id, "CreateOperation", endpoint)
          [] token.op = "update" -> NewOperation(id, "UpdateOperation", endpoint)
          [] OTHER -> NewOperation(id, "CrudOperation", endpoint)

\* the factory of a token: the operation for the op and the path in its closure
Factory(token, base, id) ==
    LET endpoint == Endpoint(base, token.path)
    IN  CASE token.op = "get" -> NewOperation(id, "GetOperation", endpoint)
          [] token.op = "create" -> NewOperation(id, "CreateOperation", endpoint)
          [] token.op = "update" -> NewOperation(id, "UpdateOperation", endpoint)
          [] token.op = "delete" -> NewOperation(id, "DeleteOperation", endpoint)
          [] OTHER -> NewOperation(id, "CrudOperation", endpoint)

\* provideResource(path, operation): new InjectionToken(`${op}:${path}`,
\* {providedIn: 'root', factory}), the object number id
provideResource(path, operation, id) ==
    LET opName == OrCrud(operation)
    IN  [id |-> id, desc |-> TokenName(opName, path), op |-> opName, path |-> path]

\* the rest of the state, which the example does not touch
ResourceFrame ==
    UNCHANGED <<spinnerVars, timerVars, counterVars, carritoVars, cartVars,
                interceptorVars>>

\* a slice calls provideResource, with or without the operation
ProvideResource ==
    /\ Len(provided) < MaxTokens
    /\ \E path \in Paths, operation \in Operations \cup {Undefined} :
         provided' = Append(provided,
                        [path |-> path, operation |-> operation,
                         token |-> provideResource(path, operation, objects + 1)])
    /\ objects' = objects + 1
    /\ UNCHANGED <<baseUrl, records, factoryCalls, lastInject>>
    /\ ResourceFrame

\* inject(token) in the root injector: the record of the token, created by
\* running its factory the first time
Inject ==
    \E k \in DOMAIN provided :
        LET token == provided[k].token
            found == {r \in records : r.token = token.id}
        IN  IF found # {}
            THEN /\ lastInject' = CHOOSE r \in found : TRUE
                 /\ UNCHANGED <<baseUrl, provided, records, factoryCalls, objects>>
                 /\ ResourceFrame
            ELSE LET r == [token |-> token.id,
                           instance |-> Factory(token, baseUrl, objects + 1)]
                 IN  /\ records' = records \cup {r}
                     /\ factoryCalls' = Append(factoryCalls, token.id)
                     /\ objects' = objects + 1
                     /\ lastInject' = r
                     /\ UNCHANGED <<baseUrl, provided>>
                     /\ ResourceFrame

NextResource == ProvideResource \/ Inject

InitResource ==
    /\ Quiet
    /\ InitCounter /\ InitCarrito /\ InitCart /\ InitInterceptor
    /\ \E base \in BaseUrls : InitResourceWith(base)

SpecResource == InitResource /\ [][NextResource]_vars

----------------------------------------------------------------------------
\* Reading the log

Idx(i, e) == {k \in DOMAIN log : log[k].inv = i /\ log[k].ev = e}
Count(i, e) == Cardinality(Idx(i, e))
Pos(i, e) == CHOOSE k \in Idx(i, e) : \A m \in Idx(i, e) : k <= m

\* the handler methods invocation i has called, in order
HandlerCalls(i) ==
    LET s == SelectSeq(log, LAMBDA x : x.inv = i /\ x.ev \in Methods)
    IN  [k \in 1..Len(s) |-> s[k].ev]

\* invocation i was made on a `this` that has the three methods
Checked(i) == pc[i] # "idle" /\ thisHas[i] = Methods
Settled(i) == promise[i].state \in {"fulfilled", "rejected"}
\* the original method of invocation i was called and its promise resolved
OpResolved(i) ==
    /\ pc[i] = "done"
    /\ op[i].kind = "resolve"
    /\ Count(i, "apply") = 1
\* the original method of invocation i was called and its promise rejected
OpRejected(i) ==
    /\ pc[i] = "done"
    /\ op[i].kind = "reject"
    /\ Count(i, "apply") = 1
\* the original method of invocation i was called and threw or rejected
OpFailed(i) ==
    /\ pc[i] = "done"
    /\ op[i].kind \in {"reject", "throw"}
    /\ Count(i, "apply") = 1

----------------------------------------------------------------------------
\* C1: every invocation that passes the capability check calls spinnerOn
\* exactly once and spinnerOff at most once and only after spinnerOn; once
\* its promise has settled (the original method resolved, rejected or threw)
\* spinnerOff has been called exactly once.
C1_Pairing ==
    \A i \in Inv : Checked(i) =>
        /\ Count(i, "spinnerOn") = 1
        /\ Count(i, "spinnerOff") <= 1
        /\ Count(i, "spinnerOff") = 1 => Pos(i, "spinnerOn") < Pos(i, "spinnerOff")
        /\ Settled(i) => Count(i, "spinnerOff") = 1

C1_Witness ==
    \E i, j \in Inv :
        /\ Checked(i) /\ Settled(i) /\ op[i].kind = "reject" /\ Count(i, "apply") = 1
        /\ Checked(j) /\ Settled(j) /\ op[j].kind = "throw" /\ Count(j, "apply") = 1

\* C2 as stated: when the original method fails and handleError returns R,
\* the promise of the decorated method is fulfilled with R (spinnerOff
\* returning normally).
C2_ResolvesToHandleErrorResult ==
    \A i \in Inv :
        (OpFailed(i) /\ ~ handler.heThrows /\ ~ handler.offThrows)
            => promise[i] = Fulfilled(handler.heRet)

\* C2 amended: when the original method fails and handleError returns R
\* (spinnerOff returning normally), the promise is fulfilled with undefined,
\* whatever R is: the catch block drops the value handleError returns.
C2_ResolvesToUndefined ==
    \A i \in Inv :
        (OpFailed(i) /\ ~ handler.heThrows /\ ~ handler.offThrows)
            => promise[i] = Fulfilled(Undefined)

C2_Witness ==
    \E i \in Inv :
        /\ OpFailed(i) /\ ~ handler.heThrows /\ ~ handler.offThrows
        /\ handler.heRet = "handled"
        /\ Count(i, "handleError") = 1

\* C3: when the original method fails and handleError itself throws,
\* spinnerOff is still called exactly once, after handleError.
C3_OffDespiteHandleErrorThrow ==
    \A i \in Inv :
        (OpFailed(i) /\ handler.heThrows) =>
            /\ Count(i, "handleError") = 1
            /\ Count(i, "spinnerOff") = 1
            /\ Pos(i, "handleError") < Pos(i, "spinnerOff")

C3_Witness ==
    \E i \in Inv :
        OpFailed(i) /\ handler.heThrows /\ promise[i] = Rejected(HandleErrorError)

\* C4: a call on a `this` that lacks any of the three methods rejects with
\* the contract-violation error; it calls neither spinnerOn, spinnerOff,
\* handleError nor the original method (the log gains only the rejection and
\* the return to the caller) and leaves the loading flag as it was.
C4_ContractViolation ==
    [][\A i \in Inv :
          (pc[i] = "idle" /\ pc'[i] # "idle" /\ thisHas'[i] # Methods) =>
              /\ pc'[i] = "done"
              /\ promise'[i] = Rejected(ContractViolation)
              /\ loading' = loading
              /\ log' = log \o <<Ev(i, "settle", "rejected"), Ev(i, "return", Undefined)>>
      ]_vars

C4_Witness ==
    \E i \in Inv :
        /\ pc[i] = "done" /\ thisHas[i] = {"spinnerOn", "spinnerOff"}
        /\ promise[i] = Rejected(ContractViolation)
        /\ loading

\* C5 as stated: when the original method resolves to V, the promise of the
\* decorated method is fulfilled with V and handleError is not called.
C5_ResolvesToValue ==
    \A i \in Inv :
        OpResolved(i) =>
            /\ promise[i] = Fulfilled(op[i].val)
            /\ Count(i, "handleError") = 0

\* C5 amended: when the original method resolves to V, handleError is not
\* called, and the promise is fulfilled with V provided spinnerOff returns
\* normally; when spinnerOff throws, the promise rejects with that error.
C5_ResolvesToValueUnlessOffThrows ==
    \A i \in Inv :
        OpResolved(i) =>
            /\ Count(i, "handleError") = 0
            /\ ~ handler.offThrows => promise[i] = Fulfilled(op[i].val)
            /\ handler.offThrows => promise[i] = Rejected(OffError)

C5_Witness ==
    \E i \in Inv :
        /\ OpResolved(i) /\ ~ handler.offThrows
        /\ promise[i] = Fulfilled("42")

\* C6: when the original method returns a promise that rejects with E,
\* handleError is called exactly once, with E itself, and spinnerOff is
\* called (once, after handleError).
C6_RejectionRouted ==
    \A i \in Inv :
        OpRejected(i) =>
            /\ Count(i, "handleError") = 1
            /\ log[Pos(i, "handleError")].arg = op[i].val
            /\ Count(i, "spinnerOff") = 1
            /\ Pos(i, "handleError") < Pos(i, "spinnerOff")

C6_Witness ==
    \E i \in Inv :
        /\ OpRejected(i) /\ op[i].val = "bang"
        /\ Count(i, "handleError") = 1

\* C7: when the original method throws E synchronously, spinnerOn was called
\* before it, E is passed to handleError exactly once and spinnerOff is
\* called exactly once.
C7_SyncThrowRouted ==
    \A i \in Inv :
        (op[i].kind = "throw" /\ Count(i, "apply") >= 1) =>
            /\ Count(i, "spinnerOn") = 1
            /\ Pos(i, "spinnerOn") < Pos(i, "apply")
            /\ Count(i, "handleError") = 1
            /\ log[Pos(i, "handleError")].arg = op[i].val
            /\ Count(i, "spinnerOff") = 1

C7_Witness ==
    \E i \in Inv :
        /\ op[i] = [kind |-> "throw", val |-> "boom"]
        /\ Count(i, "apply") = 1 /\ pc[i] = "done"

\* C8 as stated: when the original method fails and handleError returns
\* normally, the promise of the decorated method is fulfilled.
C8_FailureNeverRejects ==
    \A i \in Inv :
        (OpFailed(i) /\ ~ handler.heThrows) => promise[i].state = "fulfilled"

\* C8 amended: when the original method fails and handleError returns
\* normally, the promise is fulfilled provided spinnerOff returns normally;
\* otherwise it rejects with the error of spinnerOff, never with the failure
\* of the original method.
C8_FailureNotRethrown ==
    \A i \in Inv :
        (OpFailed(i) /\ ~ handler.heThrows) =>
            /\ ~ handler.offThrows => promise[i].state = "fulfilled"
            /\ handler.offThrows => promise[i] = Rejected(OffError)

C8_Witness ==
    \E i \in Inv :
        /\ OpFailed(i) /\ ~ handler.heThrows /\ ~ handler.offThrows
        /\ promise[i].state = "fulfilled"

\* C9: in an invocation that passes the check, spinnerOn is called before
\* the decorated method returns its promise to the caller and before the
\* original method is called, and the original method is called before
\* spinnerOff.
C9_Ordering ==
    \A i \in Inv : Checked(i) =>
        /\ Count(i, "spinnerOn") = 1 /\ Count(i, "return") = 1
        /\ Pos(i, "spinnerOn") < Pos(i, "return")
        /\ Count(i, "apply") >= 1 => Pos(i, "spinnerOn") < Pos(i, "apply")
        /\ (Count(i, "apply") >= 1 /\ Count(i, "spinnerOff") >= 1)
              => Pos(i, "apply") < Pos(i, "spinnerOff")

C9_Witness ==
    \E i \in Inv :
        /\ Checked(i) /\ Count(i, "apply") = 1 /\ Count(i, "spinnerOff") = 1
        /\ op[i].kind = "resolve"

\* C10: in an invocation that passes the check, the promise settles only
\* after spinnerOff has been called, on the success and on the failure path;
\* when handleError is called, the handler calls are spinnerOn, handleError,
\* spinnerOff, in this order.
C10_CleanupBeforeSettle ==
    \A i \in Inv : Checked(i) =>
        /\ Settled(i) <=> Count(i, "settle") = 1
        /\ Settled(i) =>
              /\ Count(i, "spinnerOff") = 1
              /\ Pos(i, "spinnerOff") < Pos(i, "settle")
        /\ Count(i, "handleError") >= 1 =>
              HandlerCalls(i) = <<"spinnerOn", "handleError", "spinnerOff">>

C10_Witness ==
    \E i, j \in Inv :
        /\ Checked(i) /\ Settled(i) /\ OpFailed(i)
        /\ Checked(j) /\ Settled(j) /\ OpResolved(j)

\* C11: the loading flag reflects only the most recent spinnerOn/spinnerOff
\* call that took effect, whichever invocation made it; so with two
\* overlapping invocations the later one, finishing first, clears the flag
\* while the earlier operation is still in flight (the state of C11_Witness).
Effective ==
    {k \in DOMAIN log :
        \/ log[k].ev = "spinnerOn" /\ ~ handler.onThrows
        \/ log[k].ev = "spinnerOff" /\ ~ handler.offThrows}

C11_FlagIsLastTransition ==
    loading = (/\ Effective # {}
               /\ log[CHOOSE k \in Effective : \A m \in Effective : m <= k].ev
                    = "spinnerOn")

C11_Witness ==
    \E i, j \in Inv :
        /\ i < j /\ Checked(i) /\ Checked(j)
        /\ pc[i] = "await" /\ Count(i, "apply") = 1
        /\ pc[j] = "done" /\ op[j].kind \in {"resolve", "reject"}
        /\ Count(j, "apply") = 1 /\ Count(j, "spinnerOff") = 1
        /\ ~ handler.offThrows
        /\ ~ loading

\* C12: when a second invocation is started only after the promise of a
\* first one has settled, the handler calls of the two are two complete
\* sequences, the first's before the second's, each spinnerOn ... spinnerOff
\* with handleError in between exactly when that invocation's own try block
\* failed.
ExpectedCalls(i) ==
    IF handler.onThrows \/ op[i].kind \in {"reject", "throw"}
    THEN <<"spinnerOn", "handleError", "spinnerOff">>
    ELSE <<"spinnerOn", "spinnerOff">>

Tagged(i, s) == [k \in 1..Len(s) |-> <<i, s[k]>>]

\* the handler calls of invocations i and j, in the order of the log
HandlerCallsOf(i, j) ==
    LET s == SelectSeq(log, LAMBDA x : x.inv \in {i, j} /\ x.ev \in Methods)
    IN  [k \in 1..Len(s) |-> <<s[k].inv, s[k].ev>>]

Sequential(i, j) ==
    /\ i < j /\ Checked(i) /\ Checked(j)
    /\ Settled(i)
    /\ \A k \in DOMAIN log : log[k].inv = j => Pos(i, "settle") < k

C12_SequentialPairs ==
    \A i, j \in Inv :
        (Sequential(i, j) /\ Settled(j)) =>
            HandlerCallsOf(i, j)
              = Tagged(i, ExpectedCalls(i)) \o Tagged(j, ExpectedCalls(j))

C12_Witness ==
    \E i, j \in Inv :
        /\ Sequential(i, j) /\ Settled(j)
        /\ OpFailed(i) /\ OpResolved(j)

\* C13: an invocation whose original method was called and settles (throws,
\* resolves or rejects) eventually calls spinnerOff; an invocation whose
\* original method returned a promise that never settles stays suspended and
\* never calls spinnerOff.
\* (Both sides of the first part are stable, so "from some point on, always"
\* states that each such invocation eventually calls spinnerOff.)
C13_OffIffSettles ==
    /\ <>[](\A i \in Inv :
              (Count(i, "apply") = 1 /\ op[i].kind \in {"resolve", "reject", "throw"})
                 => Count(i, "spinnerOff") = 1)
    /\ [](\A i \in Inv :
            (Count(i, "apply") = 1 /\ op[i].kind = "pending")
               => pc[i] = "await" /\ Count(i, "spinnerOff") = 0)

C13_Witness ==
    \E i, j \in Inv :
        /\ Count(i, "apply") = 1 /\ op[i].kind = "pending" /\ pc[i] = "await"
        /\ OpRejected(j) /\ Count(j, "spinnerOff") = 1

\* C14: the body is suspended only at the await of the original method:
\* every suspension of an invocation directly follows its call of the
\* original method, there is at most one, and while it is suspended its only
\* handler call so far is spinnerOn.  handleError is not awaited: its call is
\* directly followed in the log by the spinnerOff call of the same
\* invocation, also when handleError returns a pending promise.
C14_OnlyOneSuspension ==
    \A i \in Inv : Checked(i) =>
        /\ Count(i, "await") <= 1
        /\ \A k \in Idx(i, "await") :
              k > 1 /\ log[k - 1].inv = i /\ log[k - 1].ev = "apply"
        /\ pc[i] = "await" =>
              Count(i, "await") = 1 /\ HandlerCalls(i) = <<"spinnerOn">>
        /\ \A k \in Idx(i, "handleError") :
              k < Len(log) /\ log[k + 1].inv = i /\ log[k + 1].ev = "spinnerOff"

C14_Witness ==
    \E i, j \in Inv :
        /\ i # j /\ handler.heRet = PendingPromise /\ ~ handler.heThrows
        /\ pc[i] = "await"
        /\ OpRejected(j) /\ Count(j, "handleError") = 1
        /\ Pos(i, "await") < Pos(j, "handleError")

\* C15 as stated: handleError is called at most once per invocation, and
\* only when the original method was called and threw or rejected.
C15_OnlyOperationFailure ==
    \A i \in Inv :
        /\ Count(i, "handleError") <= 1
        /\ Count(i, "handleError") = 1 =>
              Count(i, "apply") = 1 /\ op[i].kind \in {"reject", "throw"}

\* C15 amended: handleError is called at most once per invocation, and only
\* with an error thrown inside the try block: the failure of the original
\* method (thrown or rejected), or the error thrown by spinnerOn itself, in
\* which case the original method was never called.
C15_OnlyTryBlockFailure ==
    \A i \in Inv :
        /\ Count(i, "handleError") <= 1
        /\ Count(i, "handleError") = 1 =>
              \/ /\ Count(i, "apply") = 1 /\ op[i].kind \in {"reject", "throw"}
                 /\ log[Pos(i, "handleError")].arg = op[i].val
              \/ /\ Count(i, "apply") = 0 /\ handler.onThrows
                 /\ log[Pos(i, "handleError")].arg = OnError

C15_Witness ==
    \E i \in Inv :
        /\ Checked(i) /\ pc[i] = "done" /\ handler.onThrows
        /\ op[i].kind = "resolve" /\ Count(i, "apply") = 0
        /\ Count(i, "handleError") = 1
        /\ log[Pos(i, "handleError")].arg = OnError

Events(i) == SelectSeq(log, LAMBDA x : x.inv = i)

\* invocation i run alone from the initial state, as far as it has got
Alone(i) ==
    LET b      == Body(handler, Exec(FALSE, <<>>), i, thisHas[i], args[i], op[i])
        called == Exec(b.loading, Append(b.log, Ev(i, "return", Undefined)))
    IN  IF b.pc = "await" /\ pc[i] = "done"
        THEN LET r == Continue(handler, called, i, op[i])
             IN  [log |-> r.log, promise |-> r.promise]
        ELSE [log |-> called.log, promise |-> b.promise]

C17_Stateless ==
    \A i \in Inv :
        pc[i] # "idle" =>
            /\ Events(i) = Alone(i).log
            /\ promise[i] = Alone(i).promise

C17_Witness ==
    \E i, j \in Inv :
        /\ i < j
        /\ pc[i] = "done" /\ thisHas[i] # Methods
        /\ promise[i] = Rejected(ContractViolation)
        /\ Checked(j) /\ OpResolved(j) /\ promise[j].state = "fulfilled"

\* C18: for a SpinnerComponent (spinnerOn and spinnerOff as implemented in
\* the class, which do not throw) and invocations that do not overlap,
\* loading is false before the first call, is set by the call directly before
\* the original method is called, is true exactly while an invocation is
\* suspended on its operation, and is false once the invocation has settled,
\* after a success and after a failure.
IsSpinnerComponent == ~ handler.onThrows /\ ~ handler.offThrows

NoOverlap ==
    \A i, j \in Inv : (i < j /\ Checked(i) /\ Checked(j)) => Sequential(i, j)

C18_LoadingWhileInFlight ==
    (IsSpinnerComponent /\ NoOverlap) =>
        /\ loading <=> (\E i \in Inv : pc[i] = "await")
        /\ \A i \in Inv : Checked(i) =>
              /\ Count(i, "apply") = 1
              /\ Pos(i, "apply") = Pos(i, "spinnerOn") + 1

C18_Witness ==
    \E i, j \in Inv :
        /\ IsSpinnerComponent /\ NoOverlap
        /\ OpFailed(i) /\ Sequential(i, j)
        /\ pc[j] = "await" /\ loading

\* C19 as stated: every invocation that passes the capability check calls
\* the original method exactly once, with the receiver and the argument list
\* of the call.
C19_AppliesOnce ==
    \A i \in Inv : Checked(i) =>
        /\ Count(i, "apply") = 1
        /\ log[Pos(i, "apply")].arg = Applied(This, args[i])

\* C19 amended: an invocation that passes the capability check calls the
\* original method exactly once provided spinnerOn returns normally, and not
\* at all when spinnerOn throws; the call has the receiver and the argument
\* list of the invocation, and a failure is not retried.
C19_AppliesOnceUnlessOnThrows ==
    \A i \in Inv : Checked(i) =>
        /\ Count(i, "apply") = (IF handler.onThrows THEN 0 ELSE 1)
        /\ \A k \in Idx(i, "apply") : log[k].arg = Applied(This, args[i])

C19_Witness ==
    \E i, j \in Inv :
        /\ i # j
        /\ OpFailed(i) /\ args[i] = <<"a", "b">>
        /\ Checked(j) /\ Count(j, "apply") = 1 /\ args[j] = <<>>

\* C20: once the onDestroy callback of the Timer has run the interval is
\* cleared and currentDate is never set again; before that, every run of the
\* interval callback sets currentDate to the date of that moment.
C20_NoSetAfterDestroy ==
    [][/\ destroyed' => ~ intervalActive' /\ ~ due'
       /\ destroyed => currentDate' = currentDate /\ sets' = sets
       /\ (~ destroyed /\ due /\ ~ due' /\ ~ destroyed') =>
             currentDate' = now /\ sets' = sets + 1
       /\ sets' # sets => currentDate' = now /\ ~ destroyed
      ]_vars

C20_Witness ==
    /\ destroyed /\ ~ intervalActive
    /\ sets >= 2 /\ currentDate >= 2
    /\ now > currentDate + 1

\* C23: when spinnerOn itself throws, the original method is never called,
\* the error spinnerOn threw is passed to handleError and spinnerOff is still
\* called: handleError runs in an invocation whose operation never started.
C23_OnThrowRouted ==
    \A i \in Inv :
        (Checked(i) /\ handler.onThrows) =>
            /\ Count(i, "apply") = 0
            /\ Count(i, "await") = 0
            /\ HandlerCalls(i) = <<"spinnerOn", "handleError", "spinnerOff">>
            /\ log[Pos(i, "handleError")].arg = OnError
            /\ pc[i] = "done"

C23_Witness ==
    \E i \in Inv :
        /\ Checked(i) /\ handler.onThrows /\ ~ handler.heThrows
        /\ op[i].kind = "pending"
        /\ Count(i, "handleError") = 1 /\ Count(i, "spinnerOff") = 1
        /\ Count(i, "apply") = 0

\* the calls of spinnerOn and spinnerOff among the first k events of the log
OnOffUpTo(k) == {m \in 1..k : log[m].ev \in {"spinnerOn", "spinnerOff"}}
\* SpinnerComponent.loading after the first k events of the log
LoadingAt(k) ==
    /\ OnOffUpTo(k) # {}
    /\ log[CHOOSE m \in OnOffUpTo(k) : \A n \in OnOffUpTo(k) : n <= m].ev = "spinnerOn"
\* the invocations that are between their spinnerOn and their spinnerOff
\* call after the first k events of the log
InFlightAt(k) ==
    {i \in Inv :
        Cardinality({m \in Idx(i, "spinnerOn") : m <= k})
          > Cardinality({m \in Idx(i, "spinnerOff") : m <= k})}

\* C24: with the spinnerOn and spinnerOff of SpinnerComponent, under any
\* interleaving of overlapping invocations, whenever loading is true some
\* invocation is between its spinnerOn and its spinnerOff call, at every
\* point of the run; invocations in flight do not imply that loading is true.
C24_LoadingImpliesInFlight ==
    IsSpinnerComponent =>
        /\ loading => InFlightAt(Len(log)) # {}
        /\ loading = LoadingAt(Len(log))
        /\ \A k \in 0..Len(log) : LoadingAt(k) => InFlightAt(k) # {}

C24_Witness ==
    \E i, j \in Inv :
        /\ IsSpinnerComponent
        /\ pc[i] = "await" /\ pc[j] = "done" /\ Count(j, "spinnerOff") = 1
        /\ Pos(i, "spinnerOn") < Pos(j, "spinnerOn")
        /\ LoadingAt(Pos(j, "spinnerOn"))
        /\ ~ loading /\ i \in InFlightAt(Len(log))

\* the number of calls of a handler method by all the invocations
Total(e) == Cardinality({k \in DOMAIN log : log[k].ev = e})
\* no invocation is suspended: each one made so far has settled
AllSettled == \A i \in Inv : pc[i] \in {"idle", "done"}

\* C25: with the spinnerOn and spinnerOff of SpinnerComponent, once every
\* invocation made has settled, however the invocations overlapped, there
\* were as many spinnerOff calls as spinnerOn calls and loading is false.
C25_BalancedWhenSettled ==
    (IsSpinnerComponent /\ AllSettled) =>
        /\ Total("spinnerOff") = Total("spinnerOn")
        /\ ~ loading
        /\ \A i \in Inv : Count(i, "spinnerOff") = Count(i, "spinnerOn")

C25_Witness ==
    \E i, j \in Inv :
        /\ IsSpinnerComponent /\ AllSettled
        /\ OpResolved(i) /\ OpRejected(j)
        /\ Pos(i, "spinnerOn") < Pos(j, "spinnerOn")
        /\ Pos(j, "spinnerOn") < Pos(i, "spinnerOff")
        /\ Pos(i, "spinnerOff") < Pos(j, "spinnerOff")
        /\ Total("spinnerOn") = 2

\* C26: the decorated method never throws to its caller: every call returns
\* a promise, and each failure it reports (the failed capability test, an
\* error thrown by handleError or by spinnerOff) is the rejection of that
\* promise.
C26_FailuresAreRejections ==
    \A i \in Inv : pc[i] # "idle" =>
        /\ promise[i].state \in {"pending", "fulfilled", "rejected"}
        /\ Count(i, "return") = 1
        /\ ~ CapabilityOk(thisHas[i]) => promise[i] = Rejected(ContractViolation)
        /\ Count(i, "spinnerOff") = 1 /\ handler.offThrows =>
              promise[i] = Rejected(OffError)
        /\ Count(i, "handleError") = 1 /\ handler.heThrows /\ ~ handler.offThrows =>
              promise[i] = Rejected(HandleErrorError)

C26_Witness ==
    \E i, j \in Inv :
        /\ ~ CapabilityOk(thisHas[i]) /\ promise[i] = Rejected(ContractViolation)
        /\ Count(i, "return") = 1
        /\ OpFailed(j) /\ handler.heThrows /\ ~ handler.offThrows
        /\ promise[j] = Rejected(HandleErrorError)
        /\ Count(j, "return") = 1

\* C27: the Counter starts at 0 and after any sequence of increment and
\* decrement calls it is a non-negative integer; each increment adds exactly
\* 1, each decrement subtracts exactly 1 from a counter above 0 and leaves a
\* counter at 0 unchanged.
C27_CounterSteps ==
    [][/\ counter \in Nat /\ counter' \in Nat
       /\ calls' # calls =>
            /\ calls' = Append(calls, calls'[Len(calls')])
            /\ calls'[Len(calls')] = "increment" => counter' = counter + 1
            /\ (calls'[Len(calls')] = "decrement" /\ counter > 0) =>
                  counter' = counter - 1
            /\ (calls'[Len(calls')] = "decrement" /\ counter = 0) =>
                  counter' = 0
       /\ calls = <<>> => counter = 0
      ]_vars

C27_Witness ==
    /\ calls = <<"decrement", "increment", "increment", "decrement", "decrement",
                 "decrement", "increment">>
    /\ counter = 1

\* the emissions that are pizzas, in arrival order
NonNull(es) == SelectSeq(es, LAMBDA e : e \in Pizzas)
\* the sum of the prices of a list of pizzas
RECURSIVE SumPrices(_)
SumPrices(ps) ==
    IF ps = <<>> THEN 0
    ELSE SumPrices(SubSeq(ps, 1, Len(ps) - 1)) + ps[Len(ps)].price

\* C28: while the Carrito is subscribed, after any sequence of emissions
\* pizzas is the sequence of the emitted pizzas in arrival order (a null or
\* undefined emission changes nothing); no step removes or reorders a pizza,
\* and total is the sum of the prices of the pizzas in the list, 0 for the
\* empty list.
C28_PizzasAndTotal ==
    [][/\ subscribed' => pizzas' = NonNull(emitted')
       /\ Len(pizzas') >= Len(pizzas)
       /\ SubSeq(pizzas', 1, Len(pizzas)) = pizzas
       /\ (emitted' # emitted /\ emitted'[Len(emitted')] \in {Null, Undef}) =>
             pizzas' = pizzas
       /\ total' = SumPrices(pizzas')
       /\ pizzas' = <<>> => total' = 0
      ]_vars

C28_Witness ==
    /\ subscribed
    /\ emitted = <<Null, [name |-> "carbonara", price |-> 7], Undef,
                   [name |-> "margarita", price |-> 5]>>
    /\ pizzas = <<[name |-> "carbonara", price |-> 7],
                  [name |-> "margarita", price |-> 5]>>
    /\ total = 12

\* the sum of the quantities of a list of cart items
RECURSIVE QuantitySum(_)
QuantitySum(its) ==
    IF its = <<>> THEN 0
    ELSE QuantitySum(SubSeq(its, 1, Len(its) - 1)) + its[Len(its)].quantity
\* the sum of price * quantity over a list of cart items
RECURSIVE PriceSum(_)
PriceSum(its) ==
    IF its = <<>> THEN 0
    ELSE PriceSum(SubSeq(its, 1, Len(its) - 1))
           + its[Len(its)].price * its[Len(its)].quantity

\* C29: decreaseQuantity never asks the cart service for a quantity below
\* 1: for an item with quantity > 1 it calls updateQuantity(id, quantity - 1),
\* otherwise it calls removeItem(id) and not updateQuantity; and after every
\* emission of items$ the component holds the emitted items, totalItems is
\* the sum of their quantities and totalPrice the sum of price * quantity.
C29_DecreaseAndTotals ==
    /\ lastCall.by = "decreaseQuantity" =>
          /\ lastCall.item.quantity > 1 =>
                lastCall = UpdateQuantityCall("decreaseQuantity", lastCall.item,
                               lastCall.item.id, lastCall.item.quantity - 1)
          /\ lastCall.item.quantity <= 1 =>
                lastCall = RemoveItemCall("decreaseQuantity", lastCall.item,
                               lastCall.item.id)
          /\ lastCall.method = "updateQuantity" => lastCall.args[2] >= 1
    /\ cartSubscribed => items = lastItems
    /\ totalItems = QuantitySum(items)
    /\ totalPrice = PriceSum(items)

C29_Witness ==
    /\ cartSubscribed
    /\ lastItems = <<[id |-> 2, price |-> 5, quantity |-> 1],
                     [id |-> 1, price |-> 2, quantity |-> 2]>>
    /\ totalItems = 3 /\ totalPrice = 9
    /\ lastCall = RemoveItemCall("decreaseQuantity",
                      [id |-> 2, price |-> 5, quantity |-> 1], 2)

\* a notification of next(req) that carries an error status: a failure, or
\* a response event, with 400 <= status < 600
Failing(x) ==
    /\ x.n = "error" \/ (x.n = "next" /\ x.v.type = "Response")
    /\ "status" \in DOMAIN x.v
    /\ x.v.status \in 400..599

\* C21: the interceptor re-throws for every status in [400, 600): a response
\* event or an error with 400 <= status < 500 becomes an Error whose message
\* starts with the client text, with 500 <= status < 600 one that starts
\* with the server text; an error with a status outside the range (or with
\* none) is re-thrown unchanged; every other notification passes through; no
\* error ends as a completion or as nothing.
C21_Rethrows ==
    /\ Len(downstream) = Len(upstream)
    /\ \A k \in DOMAIN upstream :
         LET in == upstream[k]
             out == downstream[k]
         IN  /\ Failing(in) =>
                   /\ out.n = "error" /\ out.v.name = "Error"
                   /\ out.v.message.text =
                        (IF in.v.status \in 400..499 THEN ClientMessage
                         ELSE ServerMessage)
                   /\ out.v.message.status = in.v.status
             /\ (in.n = "error" /\ ~ Failing(in)) => out = in
             /\ in.n = "error" => out.n = "error"
             /\ (in.n # "error" /\ ~ Failing(in)) => out = in
             /\ out.n # "next" => k = Len(upstream)

C21_Witness ==
    /\ upstream = <<NextN(ResponseEvent(399, "Not Found")),
                    NextN(ResponseEvent(599, "Not Found"))>>
    /\ downstream[1] = upstream[1]
    /\ downstream[2].n = "error"
    /\ downstream[2].v.name = "Error"
    /\ downstream[2].v.message.text = ServerMessage

\* the operation class documented for an op
ClassFor(opName) ==
    CASE opName = "get" -> "GetOperation"
      [] opName = "create" -> "CreateOperation"
      [] opName = "update" -> "UpdateOperation"
      [] opName = "delete" -> "DeleteOperation"
      [] opName = "crud" -> "CrudOperation"
\* the op of a call of provideResource: 'crud' when the operation is omitted
OpOf(call) == IF call.operation \in Operations THEN call.operation ELSE "crud"
\* the instances the injector holds for the token of the k-th call
InstancesOf(k) == {r.instance : r \in {x \in records : x.token = provided[k].token.id}}

\* C22: provideResource(path, operation) returns a token named <op>:<path>
\* with op 'crud' when the operation is omitted; the factory of the token
\* creates the operation class of that op on the endpoint baseUrl + path,
\* once per token; the same path with two different operations gives two
\* different tokens and two different instances.
C22_TokensAndInstances ==
    /\ \A k \in DOMAIN provided :
         /\ provided[k].token.desc = <<OpOf(provided[k]), ":", provided[k].path>>
         /\ Cardinality(InstancesOf(k)) <= 1
         /\ Cardinality({m \in DOMAIN factoryCalls :
                            factoryCalls[m] = provided[k].token.id}) <= 1
         /\ \A o \in InstancesOf(k) :
              /\ o.class = ClassFor(OpOf(provided[k]))
              /\ o.endpoint = <<baseUrl, provided[k].path>>
    /\ \A j, k \in DOMAIN provided :
         (/\ j # k
          /\ provided[j].path = provided[k].path
          /\ provided[j].operation # provided[k].operation) =>
             /\ provided[j].token.id # provided[k].token.id
             /\ \A a \in InstancesOf(j), b \in InstancesOf(k) : a.id # b.id
    /\ lastInject.token # 0 => lastInject \in records

C22_Witness ==
    /\ Len(provided) = 2
    /\ provided[1].path = "/api/users" /\ provided[1].operation = "delete"
    /\ provided[2].path = "/api/users" /\ provided[2].operation = Undefined
    /\ provided[2].token.desc = <<"crud", ":", "/api/users">>
    /\ Len(factoryCalls) = 2
    /\ factoryCalls[1] = provided[1].token.id
    /\ lastInject.token = provided[1].token.id
    /\ lastInject.instance.class = "DeleteOperation"

====
